---- MODULE Spec2Model ----
(***************************************************************************)
(* A model of extras/ci/analytics/ci_health.py: the CI health page         *)
(* generator.  One invocation (main) fetches the queue status, appends a   *)
(* snapshot line to health_snapshots.jsonl, fetches the recent failures    *)
(* and renders health.html from the live data and the trailing 24 hours of *)
(* the snapshot log.                                                       *)
(*                                                                         *)
(* Python strings whose characters matter (timestamps, wait times) are     *)
(* sequences of one-character strings; strings that are only compared for  *)
(* equality (group names, workflow names, placeholders) are TLA+ strings.  *)
(* A Python dict is a function whose DOMAIN is the set of keys present.    *)
(***************************************************************************)
EXTENDS Integers, Sequences, FiniteSets, TLC

VARIABLES
    clock,       \* the wall clock, seconds after Epoch (datetime.now)
    snapshots_file, \* <output>/health_snapshots.jsonl: [exists, content], content
                 \* being its lines in order
    html,        \* <output>/health.html: None or the page last written
    pc,          \* pc[p]: where invocation p of main stands
    queue_data,  \* queue_data[p]: main's local queue_data
    failures,    \* failures[p]: main's local failures
    run,         \* run[p]: what invocation p did to the files (history)
    runsLeft,    \* invocations the scheduler may still start
    ledger,      \* the log as it was found, and the lines record_snapshot has
                 \* written since, by call (history)
    arg,         \* the argument of a function called on its own
    ret          \* what that function returned or raised

vars == <<clock, snapshots_file, html, pc, queue_data, failures, run, runsLeft, ledger, arg, ret>>

----------------------------------------------------------------------------
(* Python values and strings *)

\* dict.get(key, default)
Get(d, k, default) == IF k \in DOMAIN d THEN d[k] ELSE default

\* The code point of each character the model's strings are made of (ord).
Ord(c) ==
    CASE c = " " -> 32
      [] c = "-" -> 45
      [] c = "0" -> 48 [] c = "1" -> 49 [] c = "2" -> 50 [] c = "3" -> 51
      [] c = "4" -> 52 [] c = "5" -> 53 [] c = "6" -> 54 [] c = "7" -> 55
      [] c = "8" -> 56 [] c = "9" -> 57
      [] c = ":" -> 58
      [] c = "T" -> 84
      [] c = "Z" -> 90
      [] c = "h" -> 104
      [] c = "m" -> 109
      [] c = "s" -> 115

\* Python's str >= str: by code point from the left, a proper prefix being less.
RECURSIVE StrGE(_, _)
StrGE(a, b) ==
    IF b = <<>> THEN TRUE
    ELSE IF a = <<>> THEN FALSE
    ELSE IF Ord(Head(a)) > Ord(Head(b)) THEN TRUE
    ELSE IF Ord(Head(a)) < Ord(Head(b)) THEN FALSE
    ELSE StrGE(Tail(a), Tail(b))

Digit(n) == SubSeq(<<"0", "1", "2", "3", "4", "5", "6", "7", "8", "9">>, n + 1, n + 1)

\* str(n) / f"{n}" of a non-negative int
RECURSIVE Dec(_)
Dec(n) == IF n < 10 THEN Digit(n) ELSE Dec(n \div 10) \o Digit(n % 10)

\* f"{n:02d}" (and strftime's %m %d %H %M %S): at least two digits, zero-padded
Pad2(n) == IF n < 10 THEN <<"0">> \o Dec(n) ELSE Dec(n)

\* strftime's %Y of a datetime: four digits, zero-padded
Pad4(n) ==
    IF n < 10 THEN <<"0", "0", "0">> \o Dec(n)
    ELSE IF n < 100 THEN <<"0", "0">> \o Dec(n)
    ELSE IF n < 1000 THEN <<"0">> \o Dec(n)
    ELSE Dec(n)

----------------------------------------------------------------------------
(* datetime: a moment is a number of seconds after Epoch, 2026-01-01T00:00:00Z *)

IsLeap(y) == y % 4 = 0 /\ (y % 100 # 0 \/ y % 400 = 0)
DaysInYear(y) == IF IsLeap(y) THEN 366 ELSE 365
DaysInMonth(y, m) ==
    IF m = 2 THEN (IF IsLeap(y) THEN 29 ELSE 28)
    ELSE IF m \in {4, 6, 9, 11} THEN 30 ELSE 31

\* The year, and the day in it (from 0), of day number d after Epoch.
RECURSIVE YearOfDay(_, _)
YearOfDay(y, d) ==
    IF d < 0 THEN YearOfDay(y - 1, d + DaysInYear(y - 1))
    ELSE IF d >= DaysInYear(y) THEN YearOfDay(y + 1, d - DaysInYear(y))
    ELSE [year |-> y, yday |-> d]

RECURSIVE MonthOfDay(_, _, _)
MonthOfDay(y, m, d) ==
    IF d >= DaysInMonth(y, m) THEN MonthOfDay(y, m + 1, d - DaysInMonth(y, m))
    ELSE [month |-> m, day |-> d + 1]

FloorDiv(a, b) == IF a >= 0 THEN a \div b ELSE -((-a + b - 1) \div b)

\* The fields of the datetime t seconds after Epoch.
DateTime(t) ==
    LET d   == FloorDiv(t, 86400)
        s   == t - d * 86400
        yd  == YearOfDay(2026, d)
        md  == MonthOfDay(yd.year, 1, yd.yday)
    IN  [year |-> yd.year, month |-> md.month, day |-> md.day,
         hour |-> s \div 3600, minute |-> (s % 3600) \div 60, second |-> s % 60]

\* now.strftime("%Y-%m-%dT%H:%M:%SZ")
Strftime(t) ==
    LET dt == DateTime(t)
    IN  Pad4(dt.year) \o <<"-">> \o Pad2(dt.month) \o <<"-">> \o Pad2(dt.day) \o <<"T">>
        \o Pad2(dt.hour) \o <<":">> \o Pad2(dt.minute) \o <<":">> \o Pad2(dt.second)
        \o <<"Z">>

\* now - timedelta(hours=hours)
MinusHours(t, hours) == t - hours * 3600

----------------------------------------------------------------------------
(* Python values *)

\* None, or a value that is not None
None == [none |-> TRUE]
Some(v) == [none |-> FALSE, val |-> v]

\* The empty dict and the empty str
EmptyDict == <<>>
EmptyStr == <<>>

\* A str, and a value that is no str, where either may stand (a timestamp)
PyStr(chars) == [type |-> "str", chars |-> chars]
PyInt == [type |-> "int", chars |-> <<>>]

\* bool(queue_data): None and the empty dict are falsy
Truthy(q) == ~q.none /\ DOMAIN q.val # {}

SNAPSHOTS_FILE == "health_snapshots.jsonl"

----------------------------------------------------------------------------
(* record_snapshot *)

\* for r in queue_data.get("self_hosted_runners", []): one pass of the loop
CountRunner(groups, r) ==
    LET g  == Get(r, "group", "Other")
        g0 == IF g \in DOMAIN groups THEN groups
              ELSE [k \in DOMAIN groups \cup {g} |->
                       IF k = g THEN [busy |-> 0, total |-> 0] ELSE groups[k]]
    IN  IF Get(r, "status", "None") = "online"
        THEN [g0 EXCEPT ![g] = [total |-> @.total + 1,
                                busy  |-> IF Get(r, "busy", FALSE) THEN @.busy + 1 ELSE @.busy]]
        ELSE g0

RECURSIVE RunnerGroups(_, _)
RunnerGroups(groups, runners) ==
    IF runners = <<>> THEN groups
    ELSE RunnerGroups(CountRunner(groups, Head(runners)), Tail(runners))

\* for g in queue_data.get("queue_by_group", []): queue_groups[g["name"]] = {...}
RECURSIVE QueueGroups(_, _)
QueueGroups(queue_groups, groups) ==
    IF groups = <<>> THEN queue_groups
    ELSE LET g == Head(groups)
             e == [queued |-> Get(g, "queued", 0), running |-> Get(g, "running", 0)]
         IN  QueueGroups([k \in DOMAIN queue_groups \cup {g["name"]} |->
                             IF k = g["name"] THEN e ELSE queue_groups[k]],
                         Tail(groups))

\* The snapshot dict record_snapshot builds from the document at moment now.
BuildSnapshot(doc, now) ==
    LET summary == Get(doc, "summary", EmptyDict)
    IN  [timestamp        |-> PyStr(Strftime(now)),
         jobs_queued      |-> Get(summary, "jobs_queued", 0),
         jobs_running     |-> Get(summary, "jobs_running", 0),
         runs_queued      |-> Get(summary, "runs_queued", 0),
         runs_in_progress |-> Get(summary, "runs_in_progress", 0),
         runner_groups    |-> RunnerGroups(EmptyDict, Get(doc, "self_hosted_runners", <<>>)),
         queue_by_group   |-> QueueGroups(EmptyDict, Get(doc, "queue_by_group", <<>>))]

\* json.dumps(snapshot) + "\n": one line of the log, the text of a JSON object
JsonDumps(obj) == [kind |-> "json", value |-> [type |-> "object", obj |-> obj]]

\* json.loads(line): the value the text denotes, or JSONDecodeError
JsonLoads(line) ==
    IF line.kind = "json" THEN [ok |-> TRUE, value |-> line.value]
    ELSE [ok |-> FALSE, value |-> [type |-> "null", obj |-> EmptyDict]]

\* with open(path, "a") as f: f.write(line): the file's content afterwards
FileAppendTruncating(content, line) == <<line>>

FileAppendOnce(content, line) ==
    IF \E i \in 1..Len(content) : content[i] = line THEN content ELSE Append(content, line)

FileAppend(content, line) == Append(content, line)

\* record_snapshot(queue_data, output_dir) at moment now, on the log file
\* file: the file afterwards, and the line written (if any)
RecordSnapshot(q, now, file) ==
    IF ~Truthy(q) THEN [file |-> file, wrote |-> <<>>]
    ELSE LET line == JsonDumps(BuildSnapshot(q.val, now))
         IN  [file  |-> [exists |-> TRUE, content |-> FileAppend(file.content, line)],
              wrote |-> <<line>>]

----------------------------------------------------------------------------
(* load_snapshots *)

\* snap.get("timestamp", "") >= cutoff_str
AtOrAfterStrict(ts, cutoff_str) == StrGE(ts, cutoff_str) /\ ts # cutoff_str

AtOrAfter(ts, cutoff_str) == StrGE(ts, cutoff_str)

\* for line in f: the loop of load_snapshots over the lines left, snapshots so
\* far in acc.  An exception other than JSONDecodeError leaves the function.
RECURSIVE LoadLoop(_, _, _)
LoadLoop(lines, cutoff_str, acc) ==
    IF lines = <<>> THEN [status |-> "returned", error |-> "", value |-> acc]
    ELSE LET line == Head(lines)
             rest == Tail(lines)
             p    == JsonLoads(line)
         IN  IF line.kind = "blank" THEN LoadLoop(rest, cutoff_str, acc)
             ELSE IF ~p.ok THEN LoadLoop(rest, cutoff_str, acc)
             ELSE IF p.value.type # "object"
                  THEN [status |-> "raised", error |-> "AttributeError", value |-> <<>>]
             ELSE LET snap == p.value.obj
                      ts   == Get(snap, "timestamp", PyStr(EmptyStr))
                  IN  IF ts.type # "str"
                      THEN [status |-> "raised", error |-> "TypeError", value |-> <<>>]
                      ELSE IF AtOrAfter(ts.chars, cutoff_str)
                           THEN LoadLoop(rest, cutoff_str, Append(acc, snap))
                           ELSE LoadLoop(rest, cutoff_str, acc)

\* load_snapshots(output_dir, hours) at moment now.  The file is read as
\* UTF-8 text: bytes that are no UTF-8 raise UnicodeDecodeError from the read.
LoadSnapshots(file, now, hours) ==
    IF ~file.exists THEN [status |-> "returned", error |-> "", value |-> <<>>]
    ELSE IF \E i \in 1..Len(file.content) : file.content[i].kind = "badutf8"
         THEN [status |-> "raised", error |-> "UnicodeDecodeError", value |-> <<>>]
    ELSE LoadLoop(file.content, Strftime(MinusHours(now, hours)), <<>>)

----------------------------------------------------------------------------
(* fetch_queue_status *)

\* fetch_queue_status(repo), given what subprocess.run did: it raised
\* TimeoutExpired after 300 s, or returned with a return code and a stdout.
FetchQueueStatusChecked(result) ==
    IF result.timeout THEN [status |-> "raised", error |-> "TimeoutExpired", value |-> None]
    ELSE IF result.returncode # 0
    THEN [status |-> "raised", error |-> "CalledProcessError", value |-> None]
    ELSE LET p == JsonLoads(result.stdout)
         IN  IF p.ok THEN [status |-> "returned", error |-> "", value |-> Some(p.value.obj)]
             ELSE [status |-> "returned", error |-> "", value |-> None]

FetchQueueStatus(result) ==
    IF result.timeout THEN [status |-> "raised", error |-> "TimeoutExpired", value |-> None]
    ELSE IF result.returncode # 0 THEN [status |-> "returned", error |-> "", value |-> None]
    ELSE LET p == JsonLoads(result.stdout)
         IN  IF p.ok THEN [status |-> "returned", error |-> "", value |-> Some(p.value.obj)]
             ELSE [status |-> "returned", error |-> "", value |-> None]

----------------------------------------------------------------------------
(* fetch_recent_failures *)

\* the failure record appended for one run
FailureRecord(r) ==
    LET actor == Get(r, "actor", None)
    IN  [branch     |-> Get(r, "head_branch", ""),
         url        |-> Get(r, "html_url", ""),
         created_at |-> Get(r, "created_at", EmptyStr),
         actor      |-> Get(IF actor.none THEN EmptyDict ELSE actor.val, "login", "")]

\* the two continue tests of the loop
IsCIFailure(r) == Get(r, "name", "None") = "CI" /\ Get(r, "conclusion", "None") = "failure"

RECURSIVE CollectFailures(_, _)
CollectFailures(runs, acc) ==
    IF runs = <<>> THEN acc
    ELSE CollectFailures(Tail(runs),
                         IF IsCIFailure(Head(runs)) THEN Append(acc, FailureRecord(Head(runs)))
                         ELSE acc)

\* failures[:10]
FirstTenUncut(s) == s

FirstTen(s) == SubSeq(s, 1, IF Len(s) < 10 THEN Len(s) ELSE 10)

\* fetch_recent_failures(repo), given the (runs, err) gh_api_list returned
FetchRecentFailures(api) ==
    IF ~api.err.none THEN <<>>
    ELSE FirstTen(CollectFailures(IF api.runs.none THEN <<>> ELSE api.runs.val, <<>>))

----------------------------------------------------------------------------
(* build_history_chart *)

GcpVmGroups == <<"Linux GPU (GCP)", "Windows GPU (GCP)">>

NoHistory == "No history data yet. Snapshots accumulate every 15 minutes."

\* [f(s) for s in snapshots]
SeriesOf(snapshots, key) == [i \in 1..Len(snapshots) |-> Get(snapshots[i], key, 0)]

BuildHistoryChart(snapshots) ==
    IF snapshots = <<>>
    THEN [text |-> NoHistory, labels |-> <<>>, vms |-> <<>>, runs_in_progress |-> <<>>,
          runs_queued |-> <<>>, jobs_queued |-> <<>>, jobs_running |-> <<>>]
    ELSE [text   |-> "",
          \* s["timestamp"][11:16]
          labels |-> [i \in 1..Len(snapshots) |-> SubSeq(snapshots[i]["timestamp"].chars, 12, 16)],
          vms    |-> [k \in 1..Len(GcpVmGroups) |->
                        [label |-> GcpVmGroups[k],
                         data  |-> [i \in 1..Len(snapshots) |->
                                      Get(Get(Get(snapshots[i], "runner_groups", EmptyDict),
                                              GcpVmGroups[k], EmptyDict), "total", 0)]]],
          runs_in_progress |-> SeriesOf(snapshots, "runs_in_progress"),
          runs_queued      |-> SeriesOf(snapshots, "runs_queued"),
          jobs_queued      |-> SeriesOf(snapshots, "jobs_queued"),
          jobs_running     |-> SeriesOf(snapshots, "jobs_running")]

----------------------------------------------------------------------------
(* generate_health_html *)

GCP_GPU_GROUPS == {"Linux GPU (GCP)", "Windows GPU (GCP)"}

NoRunnerStatus == "Could not fetch runner status."
NoRunnerData == "Runner data not available (may require admin access)."
NoGcpRunners == "No GCP GPU runners online."
NoQueueStatus == "Could not fetch queue status."
NoFailures == "No recent CI failures."

IsOnline(r) == Get(r, "status", "None") = "online"

\* one <tr> of a runner table: the name, the group (the second table shows
\* it), the state and, for a runner with a job, the job's label and link
RunnerRow(r) ==
    LET job == Get(r, "job", EmptyDict)
    IN  [name   |-> Get(r, "name", ""),
         group  |-> Get(r, "group", ""),
         state  |-> IF Get(r, "busy", FALSE) THEN "BUSY" ELSE "IDLE",
         job    |-> Get(job, "name", ""),
         branch |-> Get(job, "branch", ""),
         url    |-> Get(job, "html_url", "")]

\* The runner status section: the placeholder, or per GCP group with an
\* online runner its busy/total heading and rows, and the other online
\* runners' rows.  Rows are a set here; the page lists them by name.
RunnersSection(q) ==
    LET runners == IF Truthy(q) THEN Get(q.val, "self_hosted_runners", <<>>) ELSE <<>>
        idx     == 1..Len(runners)
        inGroup(g) == {i \in idx : Get(runners[i], "group", "Other") = g /\ IsOnline(runners[i])}
        shown   == {g \in GCP_GPU_GROUPS : inGroup(g) # {}}
        other   == {i \in idx : Get(runners[i], "group", "Other") \notin GCP_GPU_GROUPS
                                 /\ IsOnline(runners[i])}
    IN  IF runners # <<>>
        THEN [text   |-> IF shown = {} THEN NoGcpRunners ELSE "",
              gcp    |-> [g \in shown |->
                            [busy  |-> Cardinality({i \in inGroup(g) : Get(runners[i], "busy", FALSE)}),
                             total |-> Cardinality(inGroup(g)),
                             rows  |-> {RunnerRow(runners[i]) : i \in inGroup(g)}]],
              others |-> {RunnerRow(runners[i]) : i \in other}]
        ELSE [text   |-> IF Truthy(q) THEN NoRunnerData ELSE NoRunnerStatus,
              gcp    |-> EmptyDict,
              others |-> {}]

\* the wait time of one longest-waiting job
WaitStrNoBoundary(wait_s) ==
    IF wait_s > 3600
    THEN Dec(wait_s \div 3600) \o <<"h", " ">> \o Pad2((wait_s % 3600) \div 60) \o <<"m">>
    ELSE IF wait_s > 60
    THEN Dec(wait_s \div 60) \o <<"m", " ">> \o Pad2(wait_s % 60) \o <<"s">>
    ELSE Dec(wait_s) \o <<"s">>

WaitStr(wait_s) ==
    IF wait_s >= 3600
    THEN Dec(wait_s \div 3600) \o <<"h", " ">> \o Pad2((wait_s % 3600) \div 60) \o <<"m">>
    ELSE IF wait_s >= 60
    THEN Dec(wait_s \div 60) \o <<"m", " ">> \o Pad2(wait_s % 60) \o <<"s">>
    ELSE Dec(wait_s) \o <<"s">>

\* queue_data.get("longest_waiting_jobs", [])[:5]
FirstFive(jobs) == SubSeq(jobs, 1, IF Len(jobs) < 5 THEN Len(jobs) ELSE 5)

WaitingRow(j) ==
    [wait   |-> WaitStr(Get(j, "wait_seconds", 0)),
     name   |-> Get(j, "name", ""),
     url    |-> Get(j, "html_url", ""),
     branch |-> Get(j, "branch", "")]

\* the Runners cell of one row of the queue-depth table
RunnersCell(q, g) ==
    LET runners == Get(g, "runners", EmptyDict)
        idle    == Get(runners, "idle", 0)
        total   == Get(runners, "total", 0)
    IN  IF ~Get(q.val, "runners_available", FALSE) THEN [kind |-> "", idle |-> 0, total |-> 0]
        ELSE IF total > 0 THEN [kind |-> "idle / total", idle |-> idle, total |-> total]
        ELSE IF Get(g, "self_hosted", FALSE) THEN [kind |-> "(org-level)", idle |-> 0, total |-> 0]
        ELSE [kind |-> "(cloud)", idle |-> 0, total |-> 0]

QueueSection(q) ==
    IF Truthy(q)
    THEN LET summary == Get(q.val, "summary", EmptyDict)
             groups  == Get(q.val, "queue_by_group", <<>>)
             waiting == FirstFive(Get(q.val, "longest_waiting_jobs", <<>>))
         IN  [text    |-> "",
              cards   |-> <<Get(summary, "jobs_queued", 0), Get(summary, "jobs_running", 0),
                            Get(summary, "runs_queued", 0), Get(summary, "runs_in_progress", 0)>>,
              groups  |-> [i \in 1..Len(groups) |->
                             [name    |-> Get(groups[i], "name", ""),
                              queued  |-> Get(groups[i], "queued", 0),
                              running |-> Get(groups[i], "running", 0),
                              runners |-> RunnersCell(q, groups[i])]],
              waiting |-> [i \in 1..Len(waiting) |-> WaitingRow(waiting[i])]]
    ELSE [text |-> NoQueueStatus, cards |-> <<>>, groups |-> <<>>, waiting |-> <<>>]

\* f.get("created_at", "")[:16].replace("T", " ")
CreatedCell(created_at) ==
    LET cut == SubSeq(created_at, 1, IF Len(created_at) < 16 THEN Len(created_at) ELSE 16)
    IN  [i \in 1..Len(cut) |-> IF cut[i] = "T" THEN " " ELSE cut[i]]

FailuresSection(fs) ==
    IF fs # <<>>
    THEN [text |-> "",
          rows |-> [i \in 1..Len(fs) |->
                      [branch  |-> Get(fs[i], "branch", ""), url |-> Get(fs[i], "url", ""),
                       actor   |-> Get(fs[i], "actor", ""),
                       created |-> CreatedCell(Get(fs[i], "created_at", EmptyStr))]]]
    ELSE [text |-> NoFailures, rows |-> <<>>]

\* generate_health_html(queue_data, failures, output_dir) at moment now: the
\* snapshots it loaded and the page it wrote to health.html, or the exception
\* load_snapshots raised.
GenerateHealthHtml(q, fs, file, now) ==
    LET loaded == LoadSnapshots(file, now, 24)
    IN  IF loaded.status = "raised"
        THEN [status |-> "raised", error |-> loaded.error, snapshots |-> <<>>, page |-> <<>>]
        ELSE [status    |-> "returned",
              error     |-> "",
              snapshots |-> loaded.value,
              page      |-> [fetched_at |-> now,
                             queue      |-> QueueSection(q),
                             history    |-> BuildHistoryChart(loaded.value),
                             runners    |-> RunnersSection(q),
                             failures   |-> FailuresSection(fs)]]

----------------------------------------------------------------------------
(* The invocations of main: the bounds and the inputs they draw *)

\* invocations that may run at once against one output directory
Procs == {"a", "b"}

\* the invocation that is started first (the two are alike)
First == "a"

\* invocations the scheduler starts in all
MaxRuns == 2

\* "Designed to run on a 15-minute schedule": the seconds from one start of
\* an invocation to the next.  Two invocations run at once when one is still
\* running as the next is started.
SchedulePeriod == 900

\* 2026-11-04T03:44:05Z
StartClock == 307 * 86400 + 13445

DocSummary == [summary |-> [jobs_queued |-> 5, jobs_running |-> 2]]

DocFull ==
    [summary |-> [jobs_queued |-> 5, jobs_running |-> 2, runs_queued |-> 1, runs_in_progress |-> 3],
     self_hosted_runners |->
        <<[name |-> "gpu-1", group |-> "Linux GPU (GCP)", status |-> "online", busy |-> TRUE,
           job |-> [name |-> "build", branch |-> "main", html_url |-> "job/1"]],
          [name |-> "mac-1", status |-> "offline", busy |-> FALSE]>>,
     queue_by_group |-> <<[name |-> "Linux GPU (GCP)", queued |-> 4, running |-> 1,
                           runners |-> [idle |-> 0, total |-> 1]]>>,
     longest_waiting_jobs |-> <<[name |-> "build", branch |-> "main", wait_seconds |-> 125]>>,
     runners_available |-> TRUE]

\* the documents the status script prints in the runs modelled
RunDocs == {EmptyDict, DocFull}

InvalidText == [kind |-> "invalid", value |-> [type |-> "null", obj |-> EmptyDict]]

\* what subprocess.run does: times out, exits non-zero, prints text that is no
\* JSON, or prints a document
StatusResults ==
    {[timeout |-> TRUE, returncode |-> 0, stdout |-> InvalidText],
     [timeout |-> FALSE, returncode |-> 1, stdout |-> InvalidText],
     [timeout |-> FALSE, returncode |-> 0, stdout |-> InvalidText]}
    \cup {[timeout |-> FALSE, returncode |-> 0, stdout |-> JsonDumps(d)] : d \in RunDocs}

RunCI(n, created) ==
    [name |-> "CI", conclusion |-> "failure", head_branch |-> "main", html_url |-> n,
     created_at |-> created, actor |-> Some([login |-> "alice"])]

\* what gh_api_list returns: an error, or the completed runs
ApiResults ==
    {[runs |-> None, err |-> Some("HTTP 502")],
     [runs |-> Some(<<RunCI(1, Strftime(StartClock - 7200)),
                      [name |-> "Docs", conclusion |-> "failure", html_url |-> 2]>>),
      err |-> None]}

\* the logs earlier invocations left behind: none, one snapshot of 30 hours
\* ago, and that one followed by one of 15 minutes ago
OldLine == JsonDumps(BuildSnapshot(DocFull, StartClock - 30 * 3600))
RecentLine == JsonDumps(BuildSnapshot(DocSummary, StartClock - 900))
InitialLogs ==
    {[exists |-> FALSE, content |-> <<>>],
     [exists |-> TRUE, content |-> <<OldLine>>],
     [exists |-> TRUE, content |-> <<OldLine, RecentLine>>]}

\* the steps of main, in its order
MainSteps == <<"fetch_queue_status", "record_snapshot", "fetch_recent_failures",
               "generate_health_html">>

\* where main goes after the step it stands at
After(step) ==
    LET i == CHOOSE k \in 1..Len(MainSteps) : MainSteps[k] = step
    IN  IF i = Len(MainSteps) THEN "done" ELSE MainSteps[i + 1]

\* what a run has done so far: the steps taken, what the status fetch and the
\* API gave it, the log before and after record_snapshot, the line it wrote,
\* the snapshots it loaded and the page it wrote
FreshRun ==
    [steps |-> <<>>, status |-> "", api |-> "", before |-> <<>>, after |-> <<>>,
     wrote |-> <<>>, loaded |-> <<>>, page |-> None]

NoArg == <<>>

Init ==
    /\ clock = StartClock
    /\ snapshots_file \in InitialLogs
    /\ html = None
    /\ pc = [p \in Procs |-> "idle"]
    /\ queue_data = [p \in Procs |-> None]
    /\ failures = [p \in Procs |-> <<>>]
    /\ run = [p \in Procs |-> FreshRun]
    /\ runsLeft = MaxRuns
    /\ ledger = [initial |-> snapshots_file.content, written |-> <<>>]
    /\ arg = NoArg
    /\ ret = NoArg

\* the scheduler starts an invocation: main begins
Start(p) ==
    /\ pc[p] \in {"idle", "done", "crashed"}
    /\ runsLeft > 0
    /\ p = First \/ pc[First] # "idle"
    /\ runsLeft' = runsLeft - 1
    /\ pc' = [pc EXCEPT ![p] = MainSteps[1]]
    /\ queue_data' = [queue_data EXCEPT ![p] = None]
    /\ failures' = [failures EXCEPT ![p] = <<>>]
    /\ run' = [run EXCEPT ![p] = FreshRun]
    /\ clock' = clock + SchedulePeriod
    /\ UNCHANGED <<snapshots_file, html, ledger, arg, ret>>

\* queue_data = fetch_queue_status(args.repo)
DoFetchQueueStatus(p) ==
    /\ pc[p] = "fetch_queue_status"
    /\ \E result \in StatusResults :
          LET r == FetchQueueStatus(result)
          IN  /\ pc' = [pc EXCEPT ![p] = IF r.status = "raised" THEN "crashed" ELSE After(pc[p])]
              /\ queue_data' = [queue_data EXCEPT ![p] = r.value]
              /\ run' = [run EXCEPT ![p].steps = Append(@, pc[p]),
                                    ![p].status = IF result.timeout THEN "timeout"
                                                  ELSE IF r.value.none THEN "failed"
                                                  ELSE "document"]
    /\ UNCHANGED <<clock, snapshots_file, html, failures, runsLeft, ledger, arg, ret>>

\* record_snapshot(queue_data, args.output)
DoRecordSnapshot(p) ==
    /\ pc[p] = "record_snapshot"
    /\ LET r == RecordSnapshot(queue_data[p], clock, snapshots_file)
       IN  /\ snapshots_file' = r.file
           /\ run' = [run EXCEPT ![p].steps = Append(@, pc[p]),
                                 ![p].before = snapshots_file.content,
                                 ![p].after = r.file.content,
                                 ![p].wrote = r.wrote]
           /\ ledger' = [ledger EXCEPT !.written = @ \o r.wrote]
    /\ pc' = [pc EXCEPT ![p] = After(pc[p])]
    /\ UNCHANGED <<clock, html, queue_data, failures, runsLeft, arg, ret>>

\* failures = fetch_recent_failures(args.repo)
DoFetchRecentFailures(p) ==
    /\ pc[p] = "fetch_recent_failures"
    /\ \E api \in ApiResults :
          /\ failures' = [failures EXCEPT ![p] = FetchRecentFailures(api)]
          /\ run' = [run EXCEPT ![p].steps = Append(@, pc[p]),
                                ![p].api = IF api.err.none THEN "runs" ELSE "error"]
    /\ pc' = [pc EXCEPT ![p] = After(pc[p])]
    /\ UNCHANGED <<clock, snapshots_file, html, queue_data, runsLeft, ledger, arg, ret>>

\* generate_health_html(queue_data, failures, args.output)
DoGenerateHealthHtml(p) ==
    /\ pc[p] = "generate_health_html"
    /\ LET r == GenerateHealthHtml(queue_data[p], failures[p], snapshots_file, clock)
       IN  /\ pc' = [pc EXCEPT ![p] = IF r.status = "raised" THEN "crashed" ELSE After(pc[p])]
           /\ html' = IF r.status = "raised" THEN html ELSE Some(r.page)
           /\ run' = [run EXCEPT ![p].steps = Append(@, pc[p]),
                                 ![p].loaded = r.snapshots,
                                 ![p].page = IF r.status = "raised" THEN None ELSE Some(r.page)]
    /\ UNCHANGED <<clock, snapshots_file, queue_data, failures, runsLeft, ledger, arg, ret>>

Next ==
    \/ \E p \in Procs : Start(p)
    \/ \E p \in Procs : DoFetchQueueStatus(p)
    \/ \E p \in Procs : DoRecordSnapshot(p)
    \/ \E p \in Procs : DoFetchRecentFailures(p)
    \/ \E p \in Procs : DoGenerateHealthHtml(p)

Spec == Init /\ [][Next]_vars

----------------------------------------------------------------------------
(* Properties of the invocations of main *)

IsPrefix(s, t) == Len(s) <= Len(t) /\ SubSeq(t, 1, Len(s)) = s

Count(s, x) == Cardinality({i \in 1..Len(s) : s[i] = x})

\* C1: the snapshot log is append-only.  Every step of every invocation
\* leaves the previous content of health_snapshots.jsonl an unchanged prefix
\* of its content afterwards and never removes the file; only the
\* record_snapshot step changes the file, by at most one line, and a run
\* takes that step at most once: a run adds at most one line.
C1_AppendOnly ==
    /\ [][/\ IsPrefix(snapshots_file.content, snapshots_file'.content)
          /\ (snapshots_file.exists => snapshots_file'.exists)
          /\ Len(snapshots_file'.content) <= Len(snapshots_file.content) + 1
          /\ (snapshots_file' # snapshots_file) =>
                \E p \in Procs : pc[p] = "record_snapshot" /\ pc'[p] # pc[p]]_vars
    /\ [](\A p \in Procs : /\ Count(run[p].steps, "record_snapshot") <= 1
                            /\ Len(run[p].wrote) <= 1)

\* C1's case: two runs have each appended a line to a log that held two,
\* and one of them has since loaded the log and written the page.
C1_Witness ==
    /\ Len(ledger.initial) = 2
    /\ Len(snapshots_file.content) = 4
    /\ \E p \in Procs : pc[p] = "done" /\ run[p].wrote # <<>> /\ Len(run[p].loaded) >= 2

\* C7: upstream failure degrades a run but never fails it.  In every run in
\* which the status subprocess exited non-zero or printed invalid JSON, or
\* the API lister returned an error, and the subprocess did not time out:
\* the run does not crash; with the document absent record_snapshot leaves
\* the log as it found it; and the finished run has taken all four steps in
\* order and written health.html, with the placeholders "Could not fetch
\* queue status." and "Could not fetch runner status." for an absent
\* document and "No recent CI failures." for an API error.
C7_UpstreamFailureDegrades ==
    \A p \in Procs :
        (run[p].status = "failed" \/ run[p].api = "error") /\ run[p].status # "timeout" =>
            /\ pc[p] # "crashed"
            /\ ("record_snapshot" \in {run[p].steps[i] : i \in 1..Len(run[p].steps)}
                    /\ run[p].status = "failed")
                  => (run[p].after = run[p].before /\ run[p].wrote = <<>>)
            /\ (pc[p] = "done") =>
                  /\ run[p].steps = <<"fetch_queue_status", "record_snapshot",
                                      "fetch_recent_failures", "generate_health_html">>
                  /\ ~run[p].page.none
                  /\ ~html.none
                  /\ run[p].status = "failed" =>
                        /\ run[p].page.val.queue.text = "Could not fetch queue status."
                        /\ run[p].page.val.runners.text = "Could not fetch runner status."
                  /\ run[p].api = "error" =>
                        run[p].page.val.failures.text = "No recent CI failures."

\* C7's case: a run in which both the status fetch and the API failed has
\* finished, on a log that held snapshots, and its page is health.html.
C7_Witness ==
    \E p \in Procs :
        /\ pc[p] = "done" /\ run[p].status = "failed" /\ run[p].api = "error"
        /\ snapshots_file.content # <<>>
        /\ html = run[p].page
        /\ run[p].page.val.history.text = ""

\* C8: invocations running at once lose no line.  With each append one
\* atomic write of one line, the log is at every moment the log as it was
\* found followed by the lines the record_snapshot calls have written, each
\* of them whole and as often as it was written, whatever the interleaving.
C8_ConcurrentAppendsKeepEveryLine ==
    LET content == snapshots_file.content
        n0      == Len(ledger.initial)
        tail    == SubSeq(content, n0 + 1, Len(content))
    IN  /\ IsPrefix(ledger.initial, content)
        /\ Len(tail) = Len(ledger.written)
        /\ \A i \in 1..Len(ledger.written) :
              Count(tail, ledger.written[i]) = Count(ledger.written, ledger.written[i])
        /\ \A p \in Procs : run[p].wrote # <<>> => Count(tail, run[p].wrote[1]) >= 1

\* C8's case: two invocations are under way at once, each has appended its
\* line, and the log they found was not empty.
C8_Witness ==
    /\ \A p \in Procs : pc[p] = "fetch_recent_failures" /\ run[p].wrote # <<>>
    /\ ledger.initial # <<>>
    /\ Len(snapshots_file.content) = Len(ledger.initial) + 2

\* C10: every run takes its steps in the order fetch queue status, record
\* snapshot, fetch failures, render page; and in every finished run that had
\* a queue-status document (and ran alone, as the tool is meant to be run),
\* the 24-hour history loaded for the page is not empty and ends with the
\* snapshot that run appended.
C10_HistoryEndsWithOwnSnapshot ==
    \A p \in Procs :
        /\ IsPrefix(run[p].steps, <<"fetch_queue_status", "record_snapshot",
                                    "fetch_recent_failures", "generate_health_html">>)
        /\ (pc[p] = "done" /\ run[p].status = "document"
               /\ \A q \in Procs \ {p} : pc[q] = "idle") =>
              /\ run[p].loaded # <<>>
              /\ run[p].wrote # <<>>
              /\ JsonDumps(run[p].loaded[Len(run[p].loaded)]) = run[p].wrote[1]
----------------------------------------------------------------------------
(* record_snapshot called on its own, on an empty log *)

\* the largest counter of a document's summary
MaxCount == 2
\* the most runners of a document
MaxRunners == 3

CounterKeys == {"jobs_queued", "jobs_running", "runs_queued", "runs_in_progress"}

\* the summaries: any of the four counters present, each up to MaxCount
Summaries == UNION {[S -> 0..MaxCount] : S \in SUBSET CounterKeys}

\* the runner entries: with or without a group, online, offline or with no
\* status, busy or not
RunnerEntries ==
    {[group |-> "Linux GPU (GCP)", status |-> st, busy |-> b] :
        st \in {"online", "offline"}, b \in BOOLEAN}
    \cup {[status |-> st, busy |-> b] : st \in {"online", "offline"}, b \in BOOLEAN}
    \cup {[group |-> "Linux GPU (GCP)", busy |-> TRUE], [name |-> "mac-1"]}

RunnerLists == UNION {[1..n -> RunnerEntries] : n \in 0..MaxRunners}

\* the documents record_snapshot is given: the empty document, documents
\* with a summary only, with runners only, with neither, and a full one
RecordDocs ==
    {EmptyDict, [runners_available |-> FALSE], DocFull}
    \cup {[summary |-> s] : s \in Summaries}
    \cup {[self_hosted_runners |-> rs] : rs \in RunnerLists}

\* 2028-02-29T23:59:59Z
LeapDayClock == (365 + 365 + 59) * 86400 + 86399

Pending == [status |-> "pending"]

InitPure ==
    /\ html = None
    /\ pc = [p \in Procs |-> "idle"]
    /\ queue_data = [p \in Procs |-> None]
    /\ failures = [p \in Procs |-> <<>>]
    /\ run = [p \in Procs |-> FreshRun]
    /\ runsLeft = 0
    /\ ret = Pending

InitRecord ==
    /\ InitPure
    /\ clock \in {StartClock, LeapDayClock}
    /\ snapshots_file \in {[exists |-> FALSE, content |-> <<>>], [exists |-> TRUE, content |-> <<>>]}
    /\ ledger = [initial |-> <<>>, written |-> <<>>]
    /\ arg \in {None} \cup {Some(d) : d \in RecordDocs}

\* record_snapshot(arg, output_dir)
CallRecordSnapshot ==
    /\ ret = Pending
    /\ LET r == RecordSnapshot(arg, clock, snapshots_file)
       IN  /\ snapshots_file' = r.file
           /\ ledger' = [ledger EXCEPT !.written = @ \o r.wrote]
           /\ ret' = [status |-> "returned"]
    /\ UNCHANGED <<clock, html, pc, queue_data, failures, run, runsLeft, arg>>

NextRecord == CallRecordSnapshot

SpecRecord == InitRecord /\ [][NextRecord]_vars

IsDigit(c) == c \in {"0", "1", "2", "3", "4", "5", "6", "7", "8", "9"}

\* the number a string of digits denotes
RECURSIVE Num(_)
Num(s) == IF s = <<>> THEN 0 ELSE 10 * Num(SubSeq(s, 1, Len(s) - 1)) + (Ord(s[Len(s)]) - 48)

\* days from 2026-01-01 to the first of January of year y (y >= 2026)
RECURSIVE DaysToYear(_)
DaysToYear(y) == IF y <= 2026 THEN 0 ELSE DaysToYear(y - 1) + DaysInYear(y - 1)

RECURSIVE DaysToMonth(_, _)
DaysToMonth(y, m) == IF m <= 1 THEN 0 ELSE DaysToMonth(y, m - 1) + DaysInMonth(y, m - 1)

\* ts reads YYYY-MM-DDTHH:MM:SSZ and names the moment t
NamesMoment(ts, t) ==
    /\ Len(ts) = 20
    /\ ts[5] = "-" /\ ts[8] = "-" /\ ts[11] = "T" /\ ts[14] = ":" /\ ts[17] = ":" /\ ts[20] = "Z"
    /\ \A i \in {1, 2, 3, 4, 6, 7, 9, 10, 12, 13, 15, 16, 18, 19} : IsDigit(ts[i])
    /\ LET y  == Num(SubSeq(ts, 1, 4))
           mo == Num(SubSeq(ts, 6, 7))
           d  == Num(SubSeq(ts, 9, 10))
           h  == Num(SubSeq(ts, 12, 13))
           mi == Num(SubSeq(ts, 15, 16))
           se == Num(SubSeq(ts, 18, 19))
       IN  /\ y >= 2026 /\ mo \in 1..12 /\ d \in 1..DaysInMonth(y, mo)
           /\ h \in 0..23 /\ mi \in 0..59 /\ se \in 0..59
           /\ t = (DaysToYear(y) + DaysToMonth(y, mo) + d - 1) * 86400 + h * 3600 + mi * 60 + se

\* the counter of a document, 0 when the summary or the counter is missing
DocCounter(doc, key) ==
    IF "summary" \in DOMAIN doc /\ key \in DOMAIN doc["summary"] THEN doc["summary"][key] ELSE 0

\* C2: for every queue-status document, the empty document included,
\* record_snapshot on an empty log leaves exactly one line: a JSON object
\* whose timestamp names the current time and whose four counters are the
\* document's, 0 for each one missing.
C2_OneLinePerDocument ==
    (ret.status = "returned" /\ ~arg.none) =>
        /\ Len(snapshots_file.content) = 1
        /\ snapshots_file.exists
        /\ LET line == snapshots_file.content[1]
           IN  /\ line.kind = "json" /\ line.value.type = "object"
               /\ line.value.obj["timestamp"].type = "str"
               /\ NamesMoment(line.value.obj["timestamp"].chars, clock)
               /\ \A k \in CounterKeys : line.value.obj[k] = DocCounter(arg.val, k)

\* C3: offline runners never contribute to runner_groups.  In the snapshot
\* record_snapshot wrote, a group is a key of runner_groups only if an online
\* runner belongs to it (so with no runner online the mapping is empty), its
\* total is the number of its online runners and its busy the number of
\* those that are busy.
C3_OnlyOnlineRunnersInGroups ==
    (ret.status = "returned" /\ ledger.written # <<>>) =>
        LET rg      == ledger.written[1].value.obj["runner_groups"]
            runners == IF "self_hosted_runners" \in DOMAIN arg.val
                       THEN arg.val["self_hosted_runners"] ELSE <<>>
            GroupOf(r) == IF "group" \in DOMAIN r THEN r["group"] ELSE "Other"
            Online(g)  == {i \in 1..Len(runners) :
                             /\ GroupOf(runners[i]) = g
                             /\ "status" \in DOMAIN runners[i]
                             /\ runners[i]["status"] = "online"}
        IN  \A g \in DOMAIN rg :
                /\ Online(g) # {}
                /\ rg[g].total = Cardinality(Online(g))
                /\ rg[g].busy = Cardinality({i \in Online(g) :
                                   "busy" \in DOMAIN runners[i] /\ runners[i]["busy"]})
----------------------------------------------------------------------------
(* load_snapshots called on its own, on any log *)

\* the most lines of a log
MaxLines == 3

JsonObject(obj) == [kind |-> "json", value |-> [type |-> "object", obj |-> obj]]

\* the lines of a log: snapshots of 30 hours, 24 hours, a second more than
\* 24 hours and 1 hour before StartClock; an object with no timestamp and one
\* whose timestamp is a number; the JSON number 123; a line cut short; a
\* blank line; bytes that are no UTF-8
LogLines ==
    {JsonDumps(BuildSnapshot(DocSummary, StartClock - h * 3600)) : h \in {30, 24, 1}}
    \cup {JsonDumps(BuildSnapshot(DocSummary, StartClock - 24 * 3600 - 1))}
    \cup {JsonObject([jobs_queued |-> 1]),
          JsonObject([timestamp |-> PyInt, jobs_queued |-> 1]),
          [kind |-> "json", value |-> [type |-> "number", obj |-> EmptyDict]],
          [kind |-> "invalid", value |-> [type |-> "null", obj |-> EmptyDict]],
          [kind |-> "blank", value |-> [type |-> "null", obj |-> EmptyDict]],
          [kind |-> "badutf8", value |-> [type |-> "null", obj |-> EmptyDict]]}

Logs ==
    {[exists |-> FALSE, content |-> <<>>]}
    \cup {[exists |-> TRUE, content |-> c] : c \in UNION {[1..n -> LogLines] : n \in 0..MaxLines}}

InitLoad ==
    /\ InitPure
    /\ clock \in {StartClock, StartClock + 23 * 3600}
    /\ snapshots_file \in Logs
    /\ ledger = [initial |-> snapshots_file.content, written |-> <<>>]
    /\ arg \in {[hours |-> 24], [hours |-> 1]}

\* load_snapshots(output_dir, arg.hours)
CallLoadSnapshots ==
    /\ ret = Pending
    /\ ret' = LoadSnapshots(snapshots_file, clock, arg.hours)
    /\ UNCHANGED <<clock, snapshots_file, html, pc, queue_data, failures, run, runsLeft, ledger, arg>>

NextLoad == CallLoadSnapshots

SpecLoad == InitLoad /\ [][NextLoad]_vars

\* a >= b as strings: b is a prefix of a, or at the first place they differ
\* a has the greater character
LexGE(a, b) ==
    \/ (Len(b) <= Len(a) /\ \A i \in 1..Len(b) : a[i] = b[i])
    \/ \E k \in 1..Len(a) :
          /\ k <= Len(b)
          /\ \A i \in 1..(k - 1) : a[i] = b[i]
          /\ Ord(a[k]) > Ord(b[k])

\* line i of the log is a record: the text of a JSON object
IsRecord(i) ==
    snapshots_file.content[i].kind = "json" /\ snapshots_file.content[i].value.type = "object"

HasStrTimestamp(i) ==
    /\ "timestamp" \in DOMAIN snapshots_file.content[i].value.obj
    /\ snapshots_file.content[i].value.obj["timestamp"].type = "str"

\* the places of the records whose timestamp string is >= the ISO-8601
\* string of now - hours
InWindow ==
    {i \in 1..Len(snapshots_file.content) :
        /\ IsRecord(i)
        /\ HasStrTimestamp(i)
        /\ LexGE(snapshots_file.content[i].value.obj["timestamp"].chars,
                 Strftime(clock - arg.hours * 3600))}

\* the k-th place, in file order, of a set of places
Kth(places, k) == CHOOSE i \in places : Cardinality({j \in places : j <= i}) = k

\* C4: load_snapshots(dir, hours) returns exactly the records of the log
\* whose timestamp string is lexicographically >= the ISO-8601 string of
\* now - hours, each once and in file order; the empty list when the file
\* does not exist; never a record with no timestamp.  It returns whenever
\* the log holds only records with a string or no timestamp, lines that are
\* no JSON and blank lines.
C4_ExactlyTheWindow ==
    (ret # Pending) =>
        /\ ~snapshots_file.exists => (ret.status = "returned" /\ ret.value = <<>>)
        /\ (\A i \in 1..Len(snapshots_file.content) :
               \/ snapshots_file.content[i].kind \in {"invalid", "blank"}
               \/ (IsRecord(i) /\ (HasStrTimestamp(i)
                                    \/ "timestamp" \notin DOMAIN snapshots_file.content[i].value.obj)))
             => ret.status = "returned"
        /\ (ret.status = "returned") =>
              /\ Len(ret.value) = Cardinality(InWindow)
              /\ \A k \in 1..Len(ret.value) :
                    /\ ret.value[k] = snapshots_file.content[Kth(InWindow, k)].value.obj
                    /\ "timestamp" \in DOMAIN ret.value[k]

\* C4's case: a log of a snapshot of 30 hours ago, a record with no
\* timestamp and a snapshot of 1 hour ago, loaded with a window of 24 hours:
\* only the last is returned.
C4_Witness ==
    /\ ret # Pending /\ ret.status = "returned"
    /\ arg.hours = 24 /\ clock = StartClock
    /\ snapshots_file.content =
          <<JsonDumps(BuildSnapshot(DocSummary, StartClock - 30 * 3600)),
            JsonObject([jobs_queued |-> 1]),
            JsonDumps(BuildSnapshot(DocSummary, StartClock - 3600))>>
    /\ ret.value = <<BuildSnapshot(DocSummary, StartClock - 3600)>>

\* C5: corruption in one record never aborts loading the rest.  For every
\* content of the log load_snapshots returns, and what it returns is every
\* snapshot of the window; a line that is no snapshot object, whatever it
\* holds, is dropped.
C5_CorruptLinesAreSkipped ==
    (ret # Pending) =>
        /\ ret.status = "returned"
        /\ Len(ret.value) = Cardinality(InWindow)

----------------------------------------------------------------------------
(* fetch_recent_failures called on its own *)

\* the most runs the API lists
MaxApiRuns == 12

\* the kinds of run: a failed CI run, a CI run that succeeded, a failed run
\* of another workflow, a failed run with no name
RunKinds == {"ci-failure", "ci-success", "docs-failure", "unnamed-failure"}

\* the run at place i of a listing, of kind k; every second run has a null
\* actor, every third no head_branch
RunAt(i, k) ==
    LET named == IF k = "unnamed-failure" THEN EmptyDict
                 ELSE [name |-> IF k = "docs-failure" THEN "Docs" ELSE "CI"]
        base  == [conclusion |-> IF k = "ci-success" THEN "success" ELSE "failure",
                  html_url   |-> i,
                  created_at |-> Strftime(StartClock - i * 600),
                  actor      |-> IF i % 2 = 0 THEN None ELSE Some([login |-> "alice"])]
        br    == IF i % 3 = 0 THEN EmptyDict ELSE [head_branch |-> "main"]
    IN  [key \in DOMAIN named \cup DOMAIN base \cup DOMAIN br |->
            IF key \in DOMAIN named THEN named[key]
            ELSE IF key \in DOMAIN base THEN base[key] ELSE br[key]]

\* the listings: up to MaxApiRuns runs whose kinds repeat a pattern of three
Listings ==
    {[i \in 1..n |-> RunAt(i, pat[(i % 3) + 1])] :
        n \in 0..MaxApiRuns, pat \in [1..3 -> RunKinds]}

ApiReturns ==
    {[runs |-> Some(l), err |-> None] : l \in Listings}
    \cup {[runs |-> None, err |-> None], [runs |-> None, err |-> Some("HTTP 502")],
          [runs |-> Some(<<RunAt(1, "ci-failure")>>), err |-> Some("HTTP 502")]}

InitFailures ==
    /\ InitPure
    /\ clock = StartClock
    /\ snapshots_file = [exists |-> FALSE, content |-> <<>>]
    /\ ledger = [initial |-> <<>>, written |-> <<>>]
    /\ arg \in ApiReturns

\* fetch_recent_failures(repo), gh_api_list returning arg
CallFetchRecentFailures ==
    /\ ret = Pending
    /\ ret' = [status |-> "returned", value |-> FetchRecentFailures(arg)]
    /\ UNCHANGED <<clock, snapshots_file, html, pc, queue_data, failures, run, runsLeft, ledger, arg>>

NextFailures == CallFetchRecentFailures

SpecFailures == InitFailures /\ [][NextFailures]_vars

\* the runs listed, none when the lister gave None
Listed == IF arg.runs.none THEN <<>> ELSE arg.runs.val

\* the places of the runs named "CI" whose conclusion is "failure"
CIFailures ==
    {i \in 1..Len(Listed) :
        /\ "name" \in DOMAIN Listed[i] /\ Listed[i]["name"] = "CI"
        /\ "conclusion" \in DOMAIN Listed[i] /\ Listed[i]["conclusion"] = "failure"}

----------------------------------------------------------------------------
(* generate_health_html called on its own: the longest-waiting-jobs table *)

\* the longest wait, in seconds
MaxWait == 7384
\* the most waiting jobs of a document
MaxJobs == 6

\* the waiting jobs of a document whose longest wait is w: w mod (MaxJobs + 1)
\* jobs, the i-th having waited w div i seconds
WaitingJobs(w) ==
    [i \in 1..(w % (MaxJobs + 1)) |-> [name |-> "build", branch |-> "main", wait_seconds |-> w \div i]]

InitWait ==
    /\ InitPure
    /\ clock = StartClock
    /\ snapshots_file = [exists |-> FALSE, content |-> <<>>]
    /\ ledger = [initial |-> <<>>, written |-> <<>>]
    /\ arg \in {Some([longest_waiting_jobs |-> WaitingJobs(w)]) : w \in 0..MaxWait}

\* generate_health_html(arg, [], output_dir)
CallGenerateHealthHtml ==
    /\ ret = Pending
    /\ LET r == GenerateHealthHtml(arg, <<>>, snapshots_file, clock)
       IN  /\ html' = IF r.status = "raised" THEN html ELSE Some(r.page)
           /\ ret' = [status |-> r.status]
    /\ UNCHANGED <<clock, snapshots_file, pc, queue_data, failures, run, runsLeft, ledger, arg>>

NextWait == CallGenerateHealthHtml

SpecWait == InitWait /\ [][NextWait]_vars

\* a number as it is written: digits with no leading zero, or "0"
IsNumeral(s) ==
    /\ s # <<>>
    /\ \A i \in 1..Len(s) : IsDigit(s[i])
    /\ s[1] = "0" => Len(s) = 1

TwoDigits(s) == Len(s) = 2 /\ IsDigit(s[1]) /\ IsDigit(s[2])

\* s reads "<a><u> <bb><v>": a numeral, the unit u, a space, two digits, the unit v
Reads(s, u, v) ==
    LET n == Len(s)
    IN  /\ n >= 6
        /\ s[n] = v /\ TwoDigits(SubSeq(s, n - 2, n - 1)) /\ s[n - 3] = " " /\ s[n - 4] = u
        /\ IsNumeral(SubSeq(s, 1, n - 5))

\* the numeral and the two digits of such a string
Major(s) == Num(SubSeq(s, 1, Len(s) - 5))
Minor(s) == Num(SubSeq(s, Len(s) - 2, Len(s) - 1))

\* C9: the wait time of every job of the longest-waiting-jobs table.  For w
\* seconds: from 3600 on it reads "<w div 3600>h <(w mod 3600) div 60, two
\* digits>m"; else from 60 on "<w div 60>m <w mod 60, two digits>s"; else
\* "<w>s".  So 45 gives "45s", 125 "2m 05s", 7384 "2h 03m", 60 "1m 00s" and
\* 3600 "1h 00m".  The table shows the first five jobs at most.
C9_WaitTimeFormat ==
    (~html.none) =>
        LET jobs == arg.val["longest_waiting_jobs"]
            rows == html.val.queue.waiting
        IN  /\ Len(rows) = (IF Len(jobs) < 5 THEN Len(jobs) ELSE 5)
            /\ \A i \in 1..Len(rows) :
                  LET w == jobs[i]["wait_seconds"]
                      s == rows[i].wait
                  IN  /\ (w >= 3600) =>
                            /\ Reads(s, "h", "m")
                            /\ Major(s) >= 1 /\ Minor(s) <= 59
                            /\ Major(s) * 3600 + Minor(s) * 60 <= w
                            /\ w < Major(s) * 3600 + (Minor(s) + 1) * 60
                      /\ (w >= 60 /\ w < 3600) =>
                            /\ Reads(s, "m", "s")
                            /\ Major(s) >= 1 /\ Minor(s) <= 59
                            /\ Major(s) * 60 + Minor(s) = w
                      /\ (w < 60) =>
                            /\ s[Len(s)] = "s"
                            /\ IsNumeral(SubSeq(s, 1, Len(s) - 1))
                            /\ Num(SubSeq(s, 1, Len(s) - 1)) = w
                      /\ (w = 45) => s = <<"4", "5", "s">>
                      /\ (w = 125) => s = <<"2", "m", " ", "0", "5", "s">>
                      /\ (w = 7384) => s = <<"2", "h", " ", "0", "3", "m">>
                      /\ (w = 60) => s = <<"1", "m", " ", "0", "0", "s">>
                      /\ (w = 3600) => s = <<"1", "h", " ", "0", "0", "m">>

\* C9's case: a document of six waiting jobs, the longest of 7384 seconds:
\* five rows, the first reading "2h 03m".
C9_Witness ==
    /\ ~html.none /\ ~arg.none
    /\ Len(arg.val["longest_waiting_jobs"]) = 6
    /\ arg.val["longest_waiting_jobs"][1]["wait_seconds"] = 7384
    /\ Len(html.val.queue.waiting) = 5
    /\ html.val.queue.waiting[1].wait = <<"2", "h", " ", "0", "3", "m">>
====
